---- MODULE Spec2Model ----
(***************************************************************************)
(* A model of the golog logger (src/golog.go): level-gated logging calls   *)
(* made by concurrent producers, the synchronous console write, the        *)
(* bounded channel of rendered lines, and the single background consumer   *)
(* (startFileWriter / writeToFile) that appends the lines to an hourly     *)
(* rotating file.                                                          *)
(*                                                                         *)
(* Strings are modelled as sequences of tokens, so that concatenation is   *)
(* \o and a line can be taken apart again.  Each logging call uses its own *)
(* call number as the format text, which makes every rendered line         *)
(* traceable to the call that produced it.                                 *)
(***************************************************************************)
EXTENDS Integers, Sequences, FiniteSets, TLC

(***************************************************************************)
(* Bounds of the model.                                                    *)
(***************************************************************************)
\* Capacity of logChannel.  The source uses 100 (golog.go:71); the model
\* scales the capacity down so that a full channel is reached with few calls.
ChanCap == 2
\* Total number of logging calls made over a behaviour.
MaxCalls == 3
\* The wall clock, counted in hours, runs over 0..MaxNow.
MaxNow == 1
\* Largest number of processors registered with AddProcessor.
MaxProcs == 2

Producers == {"p1", "p2"}
ProcIds == {"A"}
\* The processors of the chain-order scenario: P1 prepends "A", P2 "B".
ChainIds == {"A", "B"}
\* The goroutines that call AddProcessor concurrently, and the processor
\* each of them registers.
Adders == {"a1", "a2"}
AdderProc(a) == IF a = "a1" THEN "A" ELSE "B"

(***************************************************************************)
(* Constants of the program.                                               *)
(***************************************************************************)
LevelDebug == 0
LevelInfo == 1
LevelError == 2
Levels == {LevelDebug, LevelInfo, LevelError}

Reset == "ESC[0m"
Red == "ESC[31m"
Green == "ESC[32m"
Yellow == "ESC[33m"
Whitespace == " "
Newline == "NL"

InfoLevel == <<Green, "[INFO]", Reset>>
DebugLevel == <<Yellow, "[DEBUG]", Reset>>
ErrorLevel == <<Red, "[ERROR]", Reset>>

\* The colored tag each of Debug / Info / Error writes to the console.
ConsoleTag(sev) ==
    IF sev = LevelInfo THEN InfoLevel
    ELSE IF sev = LevelDebug THEN DebugLevel
    ELSE ErrorLevel

\* The plain tag each of Debug / Info / Error sends to the channel.
FileTag(sev) ==
    IF sev = LevelInfo THEN <<"[INFO]">>
    ELSE IF sev = LevelDebug THEN <<"[DEBUG]">>
    ELSE <<"[ERROR]">>

Nil == [path |-> "", open |-> FALSE]

VARIABLES
    level,        \* Logger.level
    showDetail,   \* Logger.showDetail
    processors,   \* Logger.processors
    w,            \* the bytes.Buffer / stream behind Logger.w: the writes made
    logChannel,   \* Logger.logChannel
    logFile,      \* Logger.logFile: Nil or a handle [path, open]
    currentHour,  \* Logger.currentHour
    files,        \* the file system: path -> lines appended
    now,          \* the wall clock, in hours
    consumerStarted, \* whether startFileWriter runs for this logger
    pc,           \* per producer: position inside the logging call
    frame,        \* per producer: the locals of the call in progress
    cpc,          \* consumer: "recv" (at the range loop) or "write"
    cmsg,         \* consumer: the msg handed to writeToFile
    ncalls,       \* number of logging calls started
    calls,        \* history: per call, severity, hour, caller, whether it
                  \* had to wait for room in the channel, and result
    enqueued,     \* history: lines in the order their sends completed
    handed,       \* history: lines in the order handed to writeToFile
    dropped,      \* history: lines dropped because the open failed
    lastOpen,     \* history: what the last writeToFile did about the file
    procRuns,     \* history: number of processor invocations
    openFds,      \* the paths of the files the process holds open
    adding,       \* per adder: position and locals of its AddProcessor call
    added,        \* history: the processors whose AddProcessor has returned
    got,          \* the value the last GetLevel returned, if any
    lastSet,      \* history: the value of the last SetLevel (Info if none)
    logFileEnabled \* the file persistence switch asked for with setLogFile

vars == <<level, showDetail, processors, w, logChannel, logFile, currentHour,
          files, now, consumerStarted, pc, frame, cpc, cmsg, ncalls, calls,
          enqueued, handed, dropped, lastOpen, procRuns, openFds, adding,
          added, got, lastSet, logFileEnabled>>

loggerVars == <<level, showDetail, processors>>
fileVars == <<logFile, currentHour, files, openFds>>
consumerVars == <<cpc, cmsg, handed, dropped, lastOpen>>
producerVars == <<pc, frame, ncalls, calls>>
adderVars == <<adding, added>>
configVars == <<got, lastSet, logFileEnabled>>
setupVars == <<consumerStarted, adderVars, configVars>>

NoFrame == [id |-> 0, sev |-> LevelDebug, via |-> "func", msg |-> <<>>]
NoAdd == [pc |-> "idle", f |-> "", old |-> <<>>]

(***************************************************************************)
(* Pure functions of the program.                                          *)
(***************************************************************************)
\* A processor f turns (format, v) into ("[f] " + format, v).
RECURSIVE ApplyProcessors(_, _)
ApplyProcessors(format, procs) ==
    IF procs = <<>> THEN format
    ELSE ApplyProcessors(<<Head(procs)>> \o format, Tail(procs))

\* The sequence s back to front.
Reversed(s) == [i \in 1..Len(s) |-> s[Len(s) + 1 - i]]

\* A getContent that runs the processor registered last first.
getContentNewestFirst(format, procs) ==
    ApplyProcessors(format, Reversed(procs))

\* getContent: run the chain in order, then Sprintf the result.
getContent(format, procs) == ApplyProcessors(format, procs)

\* time.Now().Format("2006-01-02_15"): the clock, truncated to the hour,
\* as a string.
HourTag(t) == ToString(t)

\* fmt.Sprintf("log_%s.log", currentHour)
FilePath(tag) == "log_" \o tag \o ".log"

\* The line of the user's code that calls the logging entry point, and the
\* line from which the function holding that line was called.
CallSite == "file:line"
OuterSite == "outer:line"

\* The source lines on the goroutine's stack while getFileLocation runs,
\* innermost first: the closure, assembleMsg, the method Logger.Info (or
\* Debug, Error), the package-level function when the call came through
\* it, and then the user's code.  via is "func" for a call of the
\* package-level function and "method" for a call of the method.
Stack(via) ==
    <<"golog.go:closure", "golog.go:assembleMsg", "golog.go:method">>
      \o (IF via = "func" THEN <<"golog.go:func">> ELSE <<>>)
      \o <<CallSite, OuterSite>>

\* runtime.Caller(skip): the line of the frame skip levels above the one
\* that calls it, or not ok when the stack is not that deep.
runtimeCaller(stack, skip) ==
    IF skip + 1 <= Len(stack) THEN stack[skip + 1] ELSE "unknown file:-1"

\* getFileLocation: runtime.Caller(4), at whatever entry point the call
\* came in.
getFileLocation(stack) == runtimeCaller(stack, 4)

\* An assembler that forgets the space before the newline.
assembleMsgNoTrailingSpace(format, detail, procs, stack) ==
    <<Whitespace>>
      \o (IF detail
          THEN <<"time", Whitespace, getFileLocation(stack), Whitespace>>
          ELSE <<>>)
      \o getContent(format, procs)
      \o <<Newline>>

\* assembleMsg: " " [timestamp " " file:line " "] content " " "\n"
assembleMsg(format, detail, procs, stack) ==
    <<Whitespace>>
      \o (IF detail
          THEN <<"time", Whitespace, getFileLocation(stack), Whitespace>>
          ELSE <<>>)
      \o getContent(format, procs)
      \o <<Whitespace, Newline>>

\* The call a rendered line comes from: its format text is the call number,
\* the last token before the trailing space and newline.
IdOf(line) == line[Len(line) - 2]

(***************************************************************************)
(* Initial state: NewLogger() followed, for the default logger, by init()  *)
(* starting startFileWriter.                                               *)
(***************************************************************************)
\* A constructor that leaves the threshold at the zero value of Level.
NewLoggerZeroLevel ==
    /\ level = LevelDebug
    /\ showDetail = FALSE
    /\ processors = <<>>
    /\ w = <<>>
    /\ logChannel = <<>>
    /\ logFile = Nil
    /\ currentHour = ""
    /\ files = <<>>
    /\ now = 0
    /\ pc = [p \in Producers |-> "idle"]
    /\ frame = [p \in Producers |-> NoFrame]
    /\ cpc = "recv"
    /\ cmsg = <<>>
    /\ ncalls = 0
    /\ calls = <<>>
    /\ enqueued = <<>>
    /\ handed = <<>>
    /\ dropped = {}
    /\ lastOpen = "none"
    /\ procRuns = 0
    /\ openFds = {}
    /\ adding = [a \in Adders |-> NoAdd]
    /\ added = <<>>
    /\ got = <<>>
    /\ lastSet = LevelInfo
    /\ logFileEnabled = TRUE

NewLogger ==
    /\ level = LevelInfo
    /\ showDetail = FALSE
    /\ processors = <<>>
    /\ w = <<>>
    /\ logChannel = <<>>
    /\ logFile = Nil
    /\ currentHour = ""
    /\ files = <<>>
    /\ now = 0
    /\ pc = [p \in Producers |-> "idle"]
    /\ frame = [p \in Producers |-> NoFrame]
    /\ cpc = "recv"
    /\ cmsg = <<>>
    /\ ncalls = 0
    /\ calls = <<>>
    /\ enqueued = <<>>
    /\ handed = <<>>
    /\ dropped = {}
    /\ lastOpen = "none"
    /\ procRuns = 0
    /\ openFds = {}
    /\ adding = [a \in Adders |-> NoAdd]
    /\ added = <<>>
    /\ got = <<>>
    /\ lastSet = LevelInfo
    /\ logFileEnabled = TRUE

Init == NewLogger /\ consumerStarted = TRUE

(***************************************************************************)
(* Configuration calls.                                                    *)
(***************************************************************************)
\* A value standing for what a read behind the elements of a slice yields.
Torn == "?"

\* The slice that a header made of the data pointer of ptr and the length n
\* denotes.
Header(ptr, n) == [i \in 1..n |-> IF i <= Len(ptr) THEN ptr[i] ELSE Torn]

\* What a plain read of l.processors can yield.  The store of a slice
\* header (pointer, length, capacity) is not atomic and AddProcessor holds
\* no lock: while an AddProcessor is storing, a read yields the old header,
\* the new one, or the pointer of one with the length of the other.
ObservedChains ==
    {processors} \cup
    UNION {{Header(ptr, n) :
               ptr \in {processors, Append(adding[a].old, adding[a].f)},
               n \in {Len(processors), Len(adding[a].old) + 1}} :
           a \in {b \in Adders : adding[b].pc = "storing"}}

\* A SetLevel that only ever raises the threshold.
SetLevelRaiseOnly(lv) ==
    /\ level' = IF lv > level THEN lv ELSE level
    /\ lastSet' = lv
    /\ UNCHANGED <<showDetail, processors, w, logChannel, fileVars, now,
                   consumerStarted, adderVars, got, logFileEnabled,
                   producerVars, consumerVars, enqueued, procRuns>>

\* SetLevel: atomic.StoreInt32 of the level.
SetLevel(lv) ==
    /\ level' = lv
    /\ lastSet' = lv
    /\ UNCHANGED <<showDetail, processors, w, logChannel, fileVars, now,
                   consumerStarted, adderVars, got, logFileEnabled,
                   producerVars, consumerVars, enqueued, procRuns>>

\* GetLevel: atomic.LoadInt32 of the level.
GetLevel ==
    /\ got' = <<level>>
    /\ UNCHANGED <<loggerVars, w, logChannel, fileVars, now, consumerStarted,
                   adderVars, lastSet, logFileEnabled, producerVars,
                   consumerVars, enqueued, procRuns>>

ShowDetail(b) ==
    /\ showDetail' = b
    /\ UNCHANGED <<level, processors, w, logChannel, fileVars, now,
                   setupVars, producerVars, consumerVars, enqueued,
                   procRuns>>

\* setLogFile(enabled), as the interface description lists it: it records
\* whether rendered lines are to be routed to the file.  The source has no
\* such function and no such field: nothing in golog.go reads the switch.
setLogFile(b) ==
    /\ logFileEnabled' = b
    /\ UNCHANGED <<loggerVars, w, logChannel, fileVars, now, consumerStarted,
                   adderVars, got, lastSet, producerVars, consumerVars,
                   enqueued, procRuns>>

\* An AddProcessor that puts the new processor at the front of the chain.
AddProcessorAtFront(f) ==
    /\ Len(processors) < MaxProcs
    /\ \A a \in Adders : adding[a].pc = "idle"
    /\ processors' = <<f>> \o processors
    /\ added' = Append(added, f)
    /\ UNCHANGED <<level, showDetail, w, logChannel, fileVars, now,
                   consumerStarted, adding, configVars, producerVars,
                   consumerVars, enqueued, procRuns>>

\* AddProcessor, run from its call to its return with no other goroutine
\* touching the chain in between.
AddProcessor(f) ==
    /\ Len(processors) < MaxProcs
    /\ \A a \in Adders : adding[a].pc = "idle"
    /\ processors' = Append(processors, f)
    /\ added' = Append(added, f)
    /\ UNCHANGED <<level, showDetail, w, logChannel, fileVars, now,
                   consumerStarted, adding, configVars, producerVars,
                   consumerVars, enqueued, procRuns>>

\* AddProcessor step by step, as concurrent callers run it:
\* "l.processors = append(l.processors, p)" reads the slice, builds the
\* longer one, and stores it.
AddLoad(a, f) ==
    /\ adding[a].pc = "idle"
    /\ Len(added) + Cardinality({b \in Adders : adding[b].pc # "idle"})
          < MaxProcs
    /\ \E old \in ObservedChains :
          adding' = [adding EXCEPT ![a] = [pc |-> "loaded", f |-> f,
                                           old |-> old]]
    /\ UNCHANGED <<loggerVars, w, logChannel, fileVars, now, consumerStarted,
                   added, configVars, producerVars, consumerVars, enqueued,
                   procRuns>>

\* The store of the new slice header begins.
AddStore(a) ==
    /\ adding[a].pc = "loaded"
    /\ adding' = [adding EXCEPT ![a].pc = "storing"]
    /\ UNCHANGED <<loggerVars, w, logChannel, fileVars, now, consumerStarted,
                   added, configVars, producerVars, consumerVars, enqueued,
                   procRuns>>

\* The store is complete and AddProcessor returns.
AddReturn(a) ==
    /\ adding[a].pc = "storing"
    /\ processors' = Append(adding[a].old, adding[a].f)
    /\ added' = Append(added, adding[a].f)
    /\ adding' = [adding EXCEPT ![a] = NoAdd]
    /\ UNCHANGED <<level, showDetail, w, logChannel, fileVars, now,
                   consumerStarted, configVars, producerVars, consumerVars,
                   enqueued, procRuns>>

(***************************************************************************)
(* A logging call: Info / Debug / Error, by severity.                      *)
(***************************************************************************)
\* A gate that also suppresses the calls at the threshold itself.
SuppressedAtThreshold(lvl, sev) == lvl >= sev

\* The level gate of Info / Debug / Error: "if l.level > LevelX { return }".
Suppressed(lvl, sev) == lvl > sev

\* Entry of a logging call of severity sev, up to and including its gate.
\* via tells whether the user called the package-level function, which
\* calls the method of the default logger, or the method itself.
Enter(p, sev, via) ==
    /\ pc[p] = "idle"
    /\ ncalls < MaxCalls
    /\ ncalls' = ncalls + 1
    /\ IF Suppressed(level, sev)
       THEN /\ calls' = Append(calls, [sev |-> sev, at |-> HourTag(now),
                                       by |-> p, waited |-> FALSE,
                                       result |-> "suppressed"])
            /\ UNCHANGED <<pc, frame>>
       ELSE /\ calls' = Append(calls, [sev |-> sev, at |-> HourTag(now),
                                       by |-> p, waited |-> FALSE,
                                       result |-> "running"])
            /\ pc' = [pc EXCEPT ![p] = "assemble"]
            /\ frame' = [frame EXCEPT ![p] = [id |-> ncalls + 1, sev |-> sev,
                                              via |-> via, msg |-> <<>>]]
    /\ UNCHANGED <<loggerVars, w, logChannel, fileVars, now, setupVars,
                   consumerVars, enqueued, procRuns>>

\* A call that renders its message before it looks at the level.
CallRenderFirst(p, sev) ==
    /\ pc[p] = "idle"
    /\ ncalls < MaxCalls
    /\ ncalls' = ncalls + 1
    /\ procRuns' = procRuns + Len(processors)
    /\ IF Suppressed(level, sev)
       THEN /\ calls' = Append(calls, [sev |-> sev, at |-> HourTag(now),
                                       by |-> p, waited |-> FALSE,
                                       result |-> "suppressed"])
            /\ UNCHANGED <<pc, frame>>
       ELSE /\ calls' = Append(calls, [sev |-> sev, at |-> HourTag(now),
                                       by |-> p, waited |-> FALSE,
                                       result |-> "running"])
            /\ pc' = [pc EXCEPT ![p] = "write"]
            /\ frame' = [frame EXCEPT ![p] = [id |-> ncalls + 1, sev |-> sev,
                             via |-> "func",
                             msg |-> assembleMsg(<<ncalls + 1>>, showDetail,
                                                 processors, Stack("func"))]]
    /\ UNCHANGED <<loggerVars, w, logChannel, fileVars, now, setupVars,
                   consumerVars, enqueued>>

\* A call of the package-level Info / Debug / Error.
Call(p, sev) == Enter(p, sev, "func")

\* A call of the method Info / Debug / Error of the logger.
MethodCall(p, sev) == Enter(p, sev, "method")

\* msg := l.assembleMsg(format, v...)
Assemble(p) ==
    /\ pc[p] = "assemble"
    /\ \E chain \in ObservedChains :
          /\ frame' = [frame EXCEPT ![p].msg =
                          assembleMsg(<<frame[p].id>>, showDetail, chain,
                                      Stack(frame[p].via))]
          /\ procRuns' = procRuns + Len(chain)
    /\ pc' = [pc EXCEPT ![p] = "write"]
    /\ UNCHANGED <<loggerVars, w, logChannel, fileVars, now, setupVars,
                   ncalls, calls, consumerVars, enqueued>>

\* A console write that is handed to another goroutine and has not run
\* when the call goes on to its send.
ConsoleWriteAsync(p) ==
    /\ pc[p] = "write"
    /\ pc' = [pc EXCEPT ![p] = "send"]
    /\ UNCHANGED <<loggerVars, w, logChannel, fileVars, now, setupVars,
                   frame, ncalls, calls, consumerVars, enqueued, procRuns>>

\* l.w.Write([]byte(XLevel + msg))
ConsoleWrite(p) ==
    /\ pc[p] = "write"
    /\ w' = Append(w, ConsoleTag(frame[p].sev) \o frame[p].msg)
    /\ pc' = [pc EXCEPT ![p] = "send"]
    /\ UNCHANGED <<loggerVars, logChannel, fileVars, now, setupVars,
                   frame, ncalls, calls, consumerVars, enqueued, procRuns>>

\* l.logChannel <- ... on a full channel: the goroutine parks until a
\* receive makes room.
Park(p) ==
    /\ pc[p] = "send"
    /\ Len(logChannel) = ChanCap
    /\ ~calls[frame[p].id].waited
    /\ calls' = [calls EXCEPT ![frame[p].id].waited = TRUE]
    /\ UNCHANGED <<loggerVars, w, logChannel, fileVars, now, setupVars,
                   pc, frame, ncalls, consumerVars, enqueued, procRuns>>

\* A send that gives up when the channel is full ("select ... default").
SendOrDrop(p) ==
    /\ pc[p] = "send"
    /\ IF Len(logChannel) < ChanCap
       THEN /\ logChannel' = Append(logChannel,
                                    FileTag(frame[p].sev) \o frame[p].msg)
            /\ enqueued' = Append(enqueued,
                                  FileTag(frame[p].sev) \o frame[p].msg)
       ELSE UNCHANGED <<logChannel, enqueued>>
    /\ calls' = [calls EXCEPT ![frame[p].id].result = "returned"]
    /\ pc' = [pc EXCEPT ![p] = "idle"]
    /\ frame' = [frame EXCEPT ![p] = NoFrame]
    /\ UNCHANGED <<loggerVars, w, fileVars, now, setupVars, ncalls,
                   consumerVars, procRuns>>

\* A send that also appends the line to the open file, in the goroutine
\* of the caller.
SendAndWrite(p) ==
    /\ pc[p] = "send"
    /\ Len(logChannel) < ChanCap
    /\ logChannel' = Append(logChannel, FileTag(frame[p].sev) \o frame[p].msg)
    /\ enqueued' = Append(enqueued, FileTag(frame[p].sev) \o frame[p].msg)
    /\ files' = IF logFile.open
                THEN [files EXCEPT ![logFile.path] =
                         Append(@, FileTag(frame[p].sev) \o frame[p].msg)]
                ELSE files
    /\ calls' = [calls EXCEPT ![frame[p].id].result = "returned"]
    /\ pc' = [pc EXCEPT ![p] = "idle"]
    /\ frame' = [frame EXCEPT ![p] = NoFrame]
    /\ UNCHANGED <<loggerVars, w, logFile, currentHour, openFds, now,
                   setupVars, ncalls, consumerVars, procRuns>>

\* l.logChannel <- "[X]" + msg : blocks while the channel is full.
Send(p) ==
    /\ pc[p] = "send"
    /\ Len(logChannel) < ChanCap
    /\ logChannel' = Append(logChannel, FileTag(frame[p].sev) \o frame[p].msg)
    /\ enqueued' = Append(enqueued, FileTag(frame[p].sev) \o frame[p].msg)
    /\ calls' = [calls EXCEPT ![frame[p].id].result = "returned"]
    /\ pc' = [pc EXCEPT ![p] = "idle"]
    /\ frame' = [frame EXCEPT ![p] = NoFrame]
    /\ UNCHANGED <<loggerVars, w, fileVars, now, setupVars, ncalls,
                   consumerVars, procRuns>>

(***************************************************************************)
(* The environment: the wall clock advances.                               *)
(***************************************************************************)
Tick ==
    /\ now < MaxNow
    /\ now' = now + 1
    /\ UNCHANGED <<loggerVars, w, logChannel, fileVars, setupVars,
                   producerVars, consumerVars, enqueued, procRuns>>

(***************************************************************************)
(* The consumer: startFileWriter and writeToFile.                          *)
(***************************************************************************)
\* A consumer that takes the newest line of the channel first.
ReceiveNewest ==
    /\ consumerStarted
    /\ cpc = "recv"
    /\ logChannel # <<>>
    /\ cmsg' = logChannel[Len(logChannel)]
    /\ logChannel' = SubSeq(logChannel, 1, Len(logChannel) - 1)
    /\ handed' = Append(handed, logChannel[Len(logChannel)])
    /\ cpc' = "write"
    /\ UNCHANGED <<loggerVars, w, fileVars, now, setupVars,
                   producerVars, enqueued, dropped, lastOpen, procRuns>>

\* A consumer that polls the channel and quits when it finds it empty
\* ("select ... default: return").
ReceiveOrQuit ==
    /\ consumerStarted
    /\ cpc = "recv"
    /\ IF logChannel # <<>>
       THEN /\ cmsg' = Head(logChannel)
            /\ logChannel' = Tail(logChannel)
            /\ handed' = Append(handed, Head(logChannel))
            /\ cpc' = "write"
       ELSE /\ cpc' = "stopped"
            /\ UNCHANGED <<cmsg, logChannel, handed>>
    /\ UNCHANGED <<loggerVars, w, fileVars, now, setupVars,
                   producerVars, enqueued, dropped, lastOpen, procRuns>>

\* for msg := range l.logChannel
Receive ==
    /\ consumerStarted
    /\ cpc = "recv"
    /\ logChannel # <<>>
    /\ cmsg' = Head(logChannel)
    /\ logChannel' = Tail(logChannel)
    /\ handed' = Append(handed, Head(logChannel))
    /\ cpc' = "write"
    /\ UNCHANGED <<loggerVars, w, fileVars, now, setupVars,
                   producerVars, enqueued, dropped, lastOpen, procRuns>>

\* File.WriteString on handle h: appends to the file when h is open, and
\* fails without effect on a closed handle.
WriteString(fs, h, msg) ==
    IF h.open THEN [fs EXCEPT ![h.path] = Append(@, msg)] ELSE fs

\* os.OpenFile(path, O_APPEND|O_CREATE|O_WRONLY): creates the file when it
\* does not exist, keeps its content otherwise.
OpenFile(fs, path) ==
    IF path \in DOMAIN fs THEN fs ELSE fs @@ (path :> <<>>)

\* l.logFile.Close()
Close(h) == [h EXCEPT !.open = FALSE]

\* The open files after "if l.logFile != nil { l.logFile.Close() }".
CloseFd(fds, h) == IF h # Nil THEN fds \ {h.path} ELSE fds

\* A check that opens a file once and never rotates.
NeedOpenNoRotation(lf, cur, tag) == lf = Nil

\* "if l.logFile == nil || l.currentHour != currentHour"
NeedOpen(lf, cur, tag) == lf = Nil \/ cur # tag

\* A writeToFile that returns after opening a file, without writing the
\* line that made it open the file.
writeToFileOpenOnly(ok) ==
    /\ consumerStarted
    /\ cpc = "write"
    /\ LET tag == HourTag(now)
       IN IF NeedOpen(logFile, currentHour, tag)
          THEN IF ok
               THEN /\ logFile' = [path |-> FilePath(tag), open |-> TRUE]
                    /\ currentHour' = tag
                    /\ files' = OpenFile(files, FilePath(tag))
                    /\ openFds' = CloseFd(openFds, logFile)
                                     \cup {FilePath(tag)}
                    /\ lastOpen' = "opened"
                    /\ UNCHANGED dropped
               ELSE /\ logFile' = IF logFile # Nil THEN Close(logFile)
                                                   ELSE logFile
                    /\ dropped' = dropped \cup {cmsg}
                    /\ openFds' = CloseFd(openFds, logFile)
                    /\ lastOpen' = "failed"
                    /\ UNCHANGED <<currentHour, files>>
          ELSE /\ ok
               /\ files' = WriteString(files, logFile, cmsg)
               /\ lastOpen' = "kept"
               /\ UNCHANGED <<logFile, currentHour, dropped, openFds>>
    /\ cpc' = "recv"
    /\ cmsg' = <<>>
    /\ UNCHANGED <<loggerVars, w, logChannel, now, setupVars,
                   producerVars, enqueued, handed, procRuns>>

\* A writeToFile that stores the new hour before it looks at the error of
\* os.OpenFile.
writeToFileTagFirst(ok) ==
    /\ consumerStarted
    /\ cpc = "write"
    /\ LET tag == HourTag(now)
       IN IF NeedOpen(logFile, currentHour, tag)
          THEN IF ok
               THEN /\ logFile' = [path |-> FilePath(tag), open |-> TRUE]
                    /\ currentHour' = tag
                    /\ files' = WriteString(OpenFile(files, FilePath(tag)),
                                  [path |-> FilePath(tag), open |-> TRUE], cmsg)
                    /\ openFds' = CloseFd(openFds, logFile)
                                     \cup {FilePath(tag)}
                    /\ lastOpen' = "opened"
                    /\ UNCHANGED dropped
               ELSE /\ logFile' = IF logFile # Nil THEN Close(logFile)
                                                   ELSE logFile
                    /\ currentHour' = tag
                    /\ dropped' = dropped \cup {cmsg}
                    /\ openFds' = CloseFd(openFds, logFile)
                    /\ lastOpen' = "failed"
                    /\ UNCHANGED files
          ELSE /\ ok
               /\ files' = WriteString(files, logFile, cmsg)
               /\ lastOpen' = "kept"
               /\ UNCHANGED <<logFile, currentHour, dropped, openFds>>
    /\ cpc' = "recv"
    /\ cmsg' = <<>>
    /\ UNCHANGED <<loggerVars, w, logChannel, now, setupVars,
                   producerVars, enqueued, handed, procRuns>>

\* A writeToFile that rotates without closing the file of the hour before.
writeToFileNoClose(ok) ==
    /\ consumerStarted
    /\ cpc = "write"
    /\ LET tag == HourTag(now)
       IN IF NeedOpen(logFile, currentHour, tag)
          THEN IF ok
               THEN /\ logFile' = [path |-> FilePath(tag), open |-> TRUE]
                    /\ currentHour' = tag
                    /\ files' = WriteString(OpenFile(files, FilePath(tag)),
                                  [path |-> FilePath(tag), open |-> TRUE], cmsg)
                    /\ openFds' = openFds \cup {FilePath(tag)}
                    /\ lastOpen' = "opened"
                    /\ UNCHANGED dropped
               ELSE /\ dropped' = dropped \cup {cmsg}
                    /\ lastOpen' = "failed"
                    /\ UNCHANGED <<logFile, openFds, currentHour, files>>
          ELSE /\ ok
               /\ files' = WriteString(files, logFile, cmsg)
               /\ lastOpen' = "kept"
               /\ UNCHANGED <<logFile, currentHour, dropped, openFds>>
    /\ cpc' = "recv"
    /\ cmsg' = <<>>
    /\ UNCHANGED <<loggerVars, w, logChannel, now, setupVars,
                   producerVars, enqueued, handed, procRuns>>

\* writeToFile(msg); ok tells whether os.OpenFile succeeds if it is called.
writeToFile(ok) ==
    /\ consumerStarted
    /\ cpc = "write"
    /\ LET tag == HourTag(now)
       IN IF NeedOpen(logFile, currentHour, tag)
          THEN IF ok
               THEN /\ logFile' = [path |-> FilePath(tag), open |-> TRUE]
                    /\ currentHour' = tag
                    /\ files' = WriteString(OpenFile(files, FilePath(tag)),
                                  [path |-> FilePath(tag), open |-> TRUE], cmsg)
                    /\ openFds' = CloseFd(openFds, logFile)
                                     \cup {FilePath(tag)}
                    /\ lastOpen' = "opened"
                    /\ UNCHANGED dropped
               ELSE /\ logFile' = IF logFile # Nil THEN Close(logFile)
                                                   ELSE logFile
                    /\ dropped' = dropped \cup {cmsg}
                    /\ openFds' = CloseFd(openFds, logFile)
                    /\ lastOpen' = "failed"
                    /\ UNCHANGED <<currentHour, files>>
          ELSE /\ ok
               /\ files' = WriteString(files, logFile, cmsg)
               /\ lastOpen' = "kept"
               /\ UNCHANGED <<logFile, currentHour, dropped, openFds>>
    /\ cpc' = "recv"
    /\ cmsg' = <<>>
    /\ UNCHANGED <<loggerVars, w, logChannel, now, setupVars,
                   producerVars, enqueued, handed, procRuns>>

(***************************************************************************)
(* The three logging functions.                                            *)
(***************************************************************************)
Info(p) == Call(p, LevelInfo)
Debug(p) == Call(p, LevelDebug)
Error(p) == Call(p, LevelError)

\* The rest of a logging call that passed the level gate.
Emit(p) ==
    \/ Assemble(p)
    \/ ConsoleWrite(p)
    \/ Park(p)
    \/ Send(p)

Consumer ==
    \/ Receive
    \/ \E ok \in BOOLEAN : writeToFile(ok)

(***************************************************************************)
(* Spec: the file pipeline of the default logger.  Concurrent producers    *)
(* call Info while the clock advances and file opens succeed or fail.      *)
(***************************************************************************)
Next ==
    \/ \E p \in Producers : Info(p) \/ Emit(p)
    \/ Tick
    \/ Consumer

Spec == Init /\ [][Next]_vars

(***************************************************************************)
(* FairSpec: Spec with the scheduling the Go runtime gives.  The consumer  *)
(* goroutine keeps running, and a producer whose send can proceed is       *)
(* eventually scheduled: weak fairness of the consumer steps and of each   *)
(* Send.  (The number of calls being bounded, a send that is enabled again *)
(* and again is in the end enabled for good, so weak fairness is enough.)  *)
(* Nothing forces a producer to make a call or the clock to advance.       *)
(***************************************************************************)
FairSpec ==
    /\ Spec
    /\ WF_vars(Receive)
    /\ WF_vars(\E ok \in BOOLEAN : writeToFile(ok))
    /\ \A p \in Producers : WF_vars(Send(p))

(***************************************************************************)
(* SpecInst: a logger made by NewLogger() in user code.  NewLogger does    *)
(* not start startFileWriter (only init() does, for the default logger),   *)
(* so nothing receives from the channel of such a logger.                  *)
(***************************************************************************)
InitInst == NewLogger /\ consumerStarted = FALSE

NextInst ==
    \/ \E p \in Producers : Info(p) \/ Error(p) \/ Emit(p)
    \/ \E lv \in Levels : SetLevel(lv)
    \/ Tick

SpecInst == InitInst /\ [][NextInst]_vars

(***************************************************************************)
(* SpecGate: the level gate of the default logger.  One caller logs at     *)
(* every severity while SetLevel changes the threshold, and GetLevel reads *)
(* it, concurrently; the consumer drains the channel into the file of the  *)
(* current hour.                                                           *)
(***************************************************************************)
Caller == "p1"

NextGate ==
    \/ Info(Caller) \/ Debug(Caller) \/ Error(Caller)
    \/ Emit(Caller)
    \/ \E lv \in Levels : SetLevel(lv)
    \/ GetLevel
    \/ Receive
    \/ writeToFile(TRUE)

SpecGate == Init /\ [][NextGate]_vars

(***************************************************************************)
(* SpecRender: the rendering of the default logger at its default level.   *)
(* One caller logs at every severity (Debug is suppressed) while the       *)
(* detail flag is switched and processors are added concurrently; the      *)
(* consumer drains the channel into the file of the current hour.          *)
(***************************************************************************)
NextRender ==
    \/ Info(Caller) \/ Debug(Caller) \/ Error(Caller)
    \/ Emit(Caller)
    \/ \E b \in BOOLEAN : ShowDetail(b)
    \/ \E f \in ProcIds : AddProcessor(f)
    \/ Receive
    \/ writeToFile(TRUE)

SpecRender == Init /\ [][NextRender]_vars

(***************************************************************************)
(* SpecChain: the processor chain of the default logger.  Two processors,  *)
(* one that prepends "A" and one that prepends "B", are registered in any  *)
(* order and number while one caller logs with Info; detail mode is off.   *)
(***************************************************************************)
NextChain ==
    \/ Info(Caller)
    \/ Emit(Caller)
    \/ \E f \in ChainIds : AddProcessor(f)
    \/ Receive
    \/ writeToFile(TRUE)

SpecChain == Init /\ [][NextChain]_vars

(***************************************************************************)
(* SpecRace: AddProcessor called by concurrent goroutines while one caller *)
(* logs with Info.                                                         *)
(***************************************************************************)
NextRace ==
    \/ \E a \in Adders :
          \/ AddLoad(a, AdderProc(a))
          \/ AddStore(a)
          \/ AddReturn(a)
    \/ Info(Caller)
    \/ Emit(Caller)
    \/ Receive
    \/ writeToFile(TRUE)

SpecRace == Init /\ [][NextRace]_vars

(***************************************************************************)
(* SpecApi: the whole producer-side API of the default logger.  The        *)
(* program sets the logger up with ShowDetail and AddProcessor before its  *)
(* first logging call; after that one caller logs at every severity while  *)
(* SetLevel and GetLevel are called concurrently and the consumer drains   *)
(* the channel.                                                            *)
(***************************************************************************)
NextApi ==
    \/ Info(Caller) \/ Debug(Caller) \/ Error(Caller)
    \/ Emit(Caller)
    \/ \E lv \in Levels : SetLevel(lv)
    \/ GetLevel
    \/ ncalls = 0 /\ \E b \in BOOLEAN : ShowDetail(b)
    \/ ncalls = 0 /\ \E f \in ProcIds : AddProcessor(f)
    \/ Receive
    \/ writeToFile(TRUE)

SpecApi == Init /\ [][NextApi]_vars

(***************************************************************************)
(* SpecToggle: the default logger with file persistence switched on and    *)
(* off while concurrent producers log with Info.                           *)
(***************************************************************************)
NextToggle ==
    \/ \E p \in Producers : Info(p) \/ Emit(p)
    \/ \E b \in BOOLEAN : setLogFile(b)
    \/ Receive
    \/ writeToFile(TRUE)

SpecToggle == Init /\ [][NextToggle]_vars

(***************************************************************************)
(* SpecDetail: detail mode of the default logger.  Code of the package     *)
(* calls the package-level Info and the method Info of the default logger  *)
(* while ShowDetail switches the detail flag.                              *)
(***************************************************************************)
NextDetail ==
    \/ Info(Caller)
    \/ MethodCall(Caller, LevelInfo)
    \/ Emit(Caller)
    \/ \E b \in BOOLEAN : ShowDetail(b)
    \/ Receive
    \/ writeToFile(TRUE)

SpecDetail == Init /\ [][NextDetail]_vars

(***************************************************************************)
(* SpecNew: a logger fresh from NewLogger(), be it the default logger,     *)
(* whose consumer init() has started, or a logger of the user's code,      *)
(* which has none; then the calls of SpecGate.                             *)
(***************************************************************************)
InitNew == NewLogger /\ consumerStarted \in BOOLEAN

SpecNew == InitNew /\ [][NextGate]_vars

TypeOK ==
    /\ level \in Levels
    /\ showDetail \in BOOLEAN
    /\ Len(processors) <= MaxProcs
    /\ now \in 0..MaxNow
    /\ cpc \in {"recv", "write", "stopped"}
    /\ \A p \in Producers : pc[p] \in {"idle", "assemble", "write", "send"}
    /\ \A p \in Producers : frame[p].via \in {"func", "method"}
    /\ ncalls = Len(calls)
    /\ \A a \in Adders : adding[a].pc \in {"idle", "loaded", "storing"}
    /\ Len(added) <= MaxProcs
    /\ got \in {<<>>} \cup {<<lv>> : lv \in Levels}
    /\ lastSet \in Levels
    /\ logFileEnabled \in BOOLEAN
    /\ openFds \subseteq {FilePath(HourTag(h)) : h \in 0..MaxNow}

(***************************************************************************)
(* Helpers of the properties.                                              *)
(***************************************************************************)
\* How many entries of the sequence of lines s come from call id.
RECURSIVE CountOf(_, _)
CountOf(s, id) ==
    IF s = <<>> THEN 0
    ELSE (IF IdOf(Head(s)) = id THEN 1 ELSE 0) + CountOf(Tail(s), id)

\* The step in which a logging call is entered and its gate is evaluated.
CallStep == ncalls' = ncalls + 1

\* The call entered by a CallStep.
NewCall == calls'[ncalls']

(***************************************************************************)
(* C1.  Level gate: a logging call of severity S made while the threshold  *)
(* is L emits, that is writes one console line and enqueues one line, if   *)
(* and only if S >= L; a call with S < L emits nothing.                    *)
(***************************************************************************)
GateDecision ==
    CallStep =>
        /\ (NewCall.sev >= level) <=> (NewCall.result = "running")
        /\ (NewCall.sev < level) <=> (NewCall.result = "suppressed")

EmitCounts ==
    \A id \in 1..ncalls :
        /\ calls[id].result = "suppressed" =>
               CountOf(w, id) = 0 /\ CountOf(enqueued, id) = 0
        /\ calls[id].result = "returned" =>
               CountOf(w, id) = 1 /\ CountOf(enqueued, id) = 1
        /\ calls[id].result = "running" =>
               CountOf(w, id) <= 1 /\ CountOf(enqueued, id) = 0

C1_LevelGate == [][GateDecision]_vars /\ []EmitCounts

\* Calls were made under several thresholds: a Debug call emitted (threshold
\* Debug), an Info call suppressed (threshold Error), an Error call emitted.
C1_Witness ==
    /\ \E i \in 1..ncalls :
          calls[i].sev = LevelDebug /\ calls[i].result = "returned"
    /\ \E i \in 1..ncalls :
          calls[i].sev = LevelInfo /\ calls[i].result = "suppressed"
    /\ \E i \in 1..ncalls :
          calls[i].sev = LevelError /\ calls[i].result = "returned"

(***************************************************************************)
(* C2.  A suppressed call changes nothing: it runs no processor, leaves    *)
(* the console, the channel and the file state as they are, and returns    *)
(* in its first step, also when the channel is full.                       *)
(***************************************************************************)
SuppressedCallIsInert ==
    (CallStep /\ NewCall.sev < level) =>
        /\ NewCall.result = "suppressed"
        /\ UNCHANGED <<procRuns, w, logChannel, enqueued, logFile, currentHour,
                       files, pc, frame, level, showDetail, processors>>

SuppressedCallNeverBlocks ==
    \A p \in Producers : \A sev \in Levels :
        (pc[p] = "idle" /\ ncalls < MaxCalls /\ sev < level) =>
            ENABLED Call(p, sev)

C2_SuppressedNoEffect ==
    [][SuppressedCallIsInert]_vars /\ []SuppressedCallNeverBlocks

\* The latest call was suppressed while the channel was full and a
\* processor was registered.
C2_Witness ==
    /\ ncalls > 0
    /\ calls[ncalls].result = "suppressed"
    /\ Len(logChannel) = ChanCap
    /\ processors # <<>>
    /\ \A p \in Producers : pc[p] = "idle"

(***************************************************************************)
(* Helpers of the file properties.                                         *)
(***************************************************************************)
\* a is a subsequence of b: the elements of a occur in b in the same order.
RECURSIVE IsSubseq(_, _)
IsSubseq(a, b) ==
    IF a = <<>> THEN TRUE
    ELSE IF b = <<>> THEN FALSE
    ELSE IF Head(a) = Head(b) THEN IsSubseq(Tail(a), Tail(b))
    ELSE IsSubseq(a, Tail(b))

\* How often line occurs in the sequence s.
Occurrences(s, line) == Cardinality({i \in 1..Len(s) : s[i] = line})

\* How often line occurs in all files together.
RECURSIVE OnDisk(_, _)
OnDisk(paths, line) ==
    IF paths = {} THEN 0
    ELSE LET q == CHOOSE x \in paths : TRUE
         IN Occurrences(files[q], line) + OnDisk(paths \ {q}, line)

\* The file system fs after line is appended to the file at path.
AppendedTo(fs, path, line) ==
    [q \in DOMAIN fs \cup {path} |->
        IF q = path
        THEN (IF path \in DOMAIN fs THEN fs[path] ELSE <<>>) \o <<line>>
        ELSE fs[q]]

\* The step in which writeToFile runs for the line the consumer holds.
WriteStep == cpc = "write" /\ cpc' = "recv"

(***************************************************************************)
(* C3.  FIFO persistence: the consumer hands the lines to writeToFile in   *)
(* the order their sends completed, so the lines of a file are in enqueue  *)
(* order, and the lines of one producer are in the order of its calls.     *)
(***************************************************************************)
HandedInEnqueueOrder == handed \o logChannel = enqueued

FilesInEnqueueOrder ==
    \A path \in DOMAIN files : IsSubseq(files[path], enqueued)

ProducerCallOrder ==
    \A path \in DOMAIN files :
        \A i, j \in 1..Len(files[path]) :
            (i < j /\ calls[IdOf(files[path][i])].by
                        = calls[IdOf(files[path][j])].by)
                => IdOf(files[path][i]) < IdOf(files[path][j])

C3_FifoPersistence ==
    HandedInEnqueueOrder /\ FilesInEnqueueOrder /\ ProducerCallOrder

\* A file holds three lines of two producers, and the call entered last
\* was enqueued, and written, before a call entered earlier.
C3_Witness ==
    \E path \in DOMAIN files :
        /\ Len(files[path]) = 3
        /\ \E i, j \in 1..3 :
              /\ i < j
              /\ IdOf(files[path][i]) > IdOf(files[path][j])
        /\ \E i, j \in 1..3 :
              /\ i < j
              /\ calls[IdOf(files[path][i])].by
                    = calls[IdOf(files[path][j])].by

(***************************************************************************)
(* C4.  No loss or duplication within one bucket: if the hour stays the    *)
(* same and no open fails, then, once the calls made have returned, the    *)
(* file of that hour eventually holds exactly the lines of the emitted     *)
(* calls, each once, in the order of the calls, and no other file exists.  *)
(***************************************************************************)
\* The hour has not changed and no open has failed.
Calm == now = 0 /\ dropped = {}

\* Every call made so far has returned.
Quiet == \A p \in Producers : pc[p] = "idle"

\* The channel is drained and the one file of hour 0 holds the lines of
\* the returned calls, each once, in enqueue order, which is the call order
\* of every producer.
OneFileHoldsAll ==
    /\ logChannel = <<>> /\ cpc = "recv"
    /\ IF enqueued = <<>>
       THEN files = <<>>
       ELSE /\ DOMAIN files = {FilePath(HourTag(0))}
            /\ files[FilePath(HourTag(0))] = enqueued
    /\ \A id \in 1..ncalls :
          calls[id].result = "returned" => CountOf(enqueued, id) = 1
    /\ ProducerCallOrder

C4_OneBucket == ([]Calm) => (Quiet ~> OneFileHoldsAll)

\* Three emitted calls have returned within hour 0 and their three lines
\* are the content of the one file.
C4_Witness ==
    /\ Calm /\ Quiet /\ OneFileHoldsAll
    /\ ncalls = MaxCalls
    /\ Len(files[FilePath(HourTag(0))]) = MaxCalls

(***************************************************************************)
(* C5.  Hour-boundary rotation.  The claim as stated: every line of a file *)
(* comes from a logging call made within the hour of that file, also when  *)
(* the line is enqueued before the boundary and dequeued after it.         *)
(***************************************************************************)
C5_LinesInCallBucket ==
    \A path \in DOMAIN files :
        \A i \in 1..Len(files[path]) :
            FilePath(calls[IdOf(files[path][i])].at) = path

(***************************************************************************)
(* C5, amended.  Every line is appended to the file of the hour in which   *)
(* the consumer writes it; no other step changes a file; no line is on     *)
(* disk twice; a dequeued line is on disk, or was dropped by a failed      *)
(* open, or is still held by the consumer; and there are files only for    *)
(* hours that the clock has reached.                                       *)
(***************************************************************************)
WrittenToCurrentBucket ==
    IF WriteStep
    THEN IF lastOpen' = "failed"
         THEN files' = files
         ELSE files' = AppendedTo(files, FilePath(HourTag(now)), cmsg)
    ELSE files' = files

EachLineOnce ==
    \A i \in 1..Len(handed) :
        OnDisk(DOMAIN files, handed[i])
          + (IF handed[i] \in dropped THEN 1 ELSE 0)
          + (IF cpc = "write" /\ cmsg = handed[i] THEN 1 ELSE 0) = 1

OnlyHandedLinesOnDisk ==
    \A path \in DOMAIN files :
        \A i \in 1..Len(files[path]) :
            \E k \in 1..Len(handed) : handed[k] = files[path][i]

FilesOfReachedHours ==
    DOMAIN files \subseteq {FilePath(HourTag(h)) : h \in 0..now}

C5_WriteBucket ==
    /\ [][WrittenToCurrentBucket]_vars
    /\ [](EachLineOnce /\ OnlyHandedLinesOnDisk /\ FilesOfReachedHours)

\* Two files exist, and a line of a call made in hour 0 is in the file of
\* hour 1.
C5_Witness ==
    /\ DOMAIN files = {FilePath(HourTag(0)), FilePath(HourTag(1))}
    /\ files[FilePath(HourTag(0))] # <<>>
    /\ \E i \in 1..Len(files[FilePath(HourTag(1))]) :
          calls[IdOf(files[FilePath(HourTag(1))][i])].at = HourTag(0)

(***************************************************************************)
(* C6.  Bounded blocking enqueue: the channel never holds more than its    *)
(* capacity; a send on a channel that is not full inserts the line; a send *)
(* on a full channel waits, keeping its line, and inserts it later: it     *)
(* neither drops the line nor returns.                                     *)
(***************************************************************************)
BoundedChannel == Len(logChannel) <= ChanCap

SendEnabledIffNotFull ==
    \A p \in Producers :
        pc[p] = "send" => (ENABLED Send(p) <=> Len(logChannel) < ChanCap)

SendWaitsOrInserts ==
    \A p \in Producers :
        pc[p] = "send" =>
            \/ pc'[p] = "send" /\ frame'[p] = frame[p]
            \/ /\ Len(logChannel) < ChanCap
               /\ logChannel' = Append(logChannel,
                                       FileTag(frame[p].sev) \o frame[p].msg)
               /\ calls'[frame[p].id].result = "returned"

C6_BoundedBlockingEnqueue ==
    /\ [](BoundedChannel /\ SendEnabledIffNotFull)
    /\ [][SendWaitsOrInserts]_vars

\* The channel is full and a producer waits to send its line.
C6_Witness ==
    /\ Len(logChannel) = ChanCap
    /\ \E p \in Producers : pc[p] = "send"

(***************************************************************************)
(* C7.  No deadlock on the default logger: a logging call that waits to    *)
(* send, the channel being full or not, eventually completes its send and  *)
(* returns, whether the opens succeed or fail; and in no state are a       *)
(* producer blocked on the full channel and the consumer unable to step.   *)
(***************************************************************************)
ConsumerCanStep ==
    ENABLED Receive \/ ENABLED (\E ok \in BOOLEAN : writeToFile(ok))

NotAllBlocked ==
    (\E p \in Producers : pc[p] = "send" /\ Len(logChannel) = ChanCap)
        => ConsumerCanStep

C7_NoDeadlock ==
    /\ []NotAllBlocked
    /\ \A p \in Producers : (pc[p] = "send") ~> (pc[p] = "idle")

\* A call that found the channel full and waited has returned, and an
\* open had failed before.
C7_Witness ==
    /\ \E id \in 1..ncalls :
          calls[id].waited /\ calls[id].result = "returned"
    /\ dropped # {}

(***************************************************************************)
(* C8.  Every logger instance, the default one and one made by NewLogger,  *)
(* has a consumer draining its channel, so that a call that finds the      *)
(* channel full is not blocked for ever: whenever a producer waits on the  *)
(* full channel, the consumer of the instance runs and can take a step.    *)
(***************************************************************************)
C8_InstanceDrained ==
    \A p \in Producers :
        (pc[p] = "send" /\ Len(logChannel) = ChanCap)
            => (consumerStarted /\ ConsumerCanStep)

(***************************************************************************)
(* C9.  File-open failure: the line whose open fails is dropped, is        *)
(* written to no file and is not retried; the consumer goes on to the next *)
(* line; as long as no file is open, every writeToFile attempts an open,   *)
(* and a writeToFile whose open does not fail writes its line.  This holds *)
(* when no file was ever opened and when the open of a rotation fails.     *)
(***************************************************************************)
FailedOpenDropsLine ==
    (WriteStep /\ lastOpen' = "failed") =>
        /\ files' = files
        /\ dropped' = dropped \cup {cmsg}
        /\ logChannel' = logChannel
        /\ cmsg' = <<>>

OtherwiseLineWritten ==
    (WriteStep /\ lastOpen' # "failed") =>
        /\ FilePath(HourTag(now)) \in DOMAIN files'
        /\ Occurrences(files'[FilePath(HourTag(now))], cmsg) = 1
        /\ dropped' = dropped

DroppedLinesNotOnDisk ==
    \A line \in dropped : OnDisk(DOMAIN files, line) = 0

FreshOpenAttempt ==
    (logFile = Nil \/ ~logFile.open) =>
        NeedOpen(logFile, currentHour, HourTag(now))

ConsumerKeepsGoing ==
    /\ cpc \in {"recv", "write"}
    /\ (cpc = "recv" /\ logChannel # <<>>) => ENABLED Receive
    /\ cpc = "write" => ENABLED writeToFile(TRUE) \/ ENABLED writeToFile(FALSE)

C9_OpenFailure ==
    /\ [][FailedOpenDropsLine /\ OtherwiseLineWritten]_vars
    /\ [](DroppedLinesNotOnDisk /\ FreshOpenAttempt /\ ConsumerKeepsGoing)

\* The first line was dropped with no file ever opened, a later line was
\* then written, and after that the open of a rotation failed.
C9_Witness ==
    /\ Len(handed) = 3
    /\ handed[1] \in dropped
    /\ OnDisk(DOMAIN files, handed[2]) = 1
    /\ handed[3] \in dropped
    /\ logFile # Nil /\ ~logFile.open

(***************************************************************************)
(* C10.  Console line format: with detail mode off, an emitted call writes *)
(* to the console, in one write, the colored tag of its level, a space,    *)
(* the rendered body, a space and a newline, and nothing else.             *)
(***************************************************************************)
ColoredTag(sev) ==
    CASE sev = LevelDebug -> <<Yellow, "[DEBUG]", Reset>>
      [] sev = LevelInfo -> <<Green, "[INFO]", Reset>>
      [] sev = LevelError -> <<Red, "[ERROR]", Reset>>

\* The step in which producer p renders its message.
RenderStep(p) == pc[p] = "assemble" /\ pc'[p] = "write"

\* The step in which producer p writes to the console.
ConsoleStep(p) == pc[p] = "write" /\ pc'[p] = "send"

PlainRender ==
    \A p \in Producers :
        (RenderStep(p) /\ ~showDetail) =>
            frame'[p].msg = <<" ">> \o getContent(<<frame[p].id>>, processors)
                                \o <<" ", "NL">>

OneConsoleWrite ==
    \A p \in Producers :
        ConsoleStep(p) =>
            w' = Append(w, ColoredTag(calls[frame[p].id].sev) \o frame[p].msg)

C10_ConsoleFormat == [][PlainRender /\ OneConsoleWrite]_vars

\* A console line without detail and without processors, and one with a
\* processor.
C10_Witness ==
    /\ \E i \in 1..Len(w) :
          w[i] = <<Green, "[INFO]", Reset, " ", IdOf(w[i]), " ", "NL">>
    /\ \E i \in 1..Len(w) :
          w[i] = <<Red, "[ERROR]", Reset, " ", "A", IdOf(w[i]), " ", "NL">>

(***************************************************************************)
(* C11.  Processor chain order: with the processors p1..pk registered by   *)
(* the AddProcessor calls completed so far, in that order, an emitted call *)
(* renders the body pk(...p1(format)...): the processors run in the order  *)
(* of their registration, each on the result of the one before, and each   *)
(* registered processor runs exactly once for the call.                    *)
(***************************************************************************)
\* pk(...p1(format)...), written down from the outermost processor, which is
\* the one registered last.
RECURSIVE Composed(_, _)
Composed(procs, format) ==
    IF procs = <<>> THEN format
    ELSE <<procs[Len(procs)]>>
           \o Composed(SubSeq(procs, 1, Len(procs) - 1), format)

\* The body of a line rendered with detail mode off: what lies between the
\* leading space and the trailing space and newline.
BodyOf(msg) == SubSeq(msg, 2, Len(msg) - 2)

ChainInOrder ==
    \A p \in Producers :
        RenderStep(p) =>
            /\ BodyOf(frame'[p].msg) = Composed(added, <<frame[p].id>>)
            /\ procRuns' = procRuns + Len(added)

C11_ChainOrder == [][ChainInOrder]_vars

\* "A" was registered and then "B", and a call made after that wrote its
\* console line, whose body is the composition of the two.
C11_Witness ==
    /\ added = <<"A", "B">>
    /\ \E i \in 1..Len(w) :
          w[i] = ColoredTag(LevelInfo) \o <<" ">>
                   \o Composed(<<"A", "B">>, <<IdOf(w[i])>>) \o <<" ", "NL">>

(***************************************************************************)
(* C12.  The claim as stated: when P1, which prepends "A", and P2, which   *)
(* prepends "B", are registered in that order, the rendered body of an     *)
(* emitted call begins with "AB".                                          *)
(***************************************************************************)
C12_BodyBeginsAB ==
    [][\A p \in Producers :
          (RenderStep(p) /\ added = <<"A", "B">>) =>
              SubSeq(BodyOf(frame'[p].msg), 1, 2) = <<"A", "B">>]_vars

(***************************************************************************)
(* C12, amended.  When P1, which prepends "A", and P2, which prepends "B", *)
(* are registered in that order, the rendered body of an emitted call      *)
(* begins with "BA": P2 runs on the output of P1, so its "B" is put before *)
(* the "A" of P1, and the format text follows.                             *)
(***************************************************************************)
C12_BodyBeginsBA ==
    [][\A p \in Producers :
          (RenderStep(p) /\ added = <<"A", "B">>) =>
              BodyOf(frame'[p].msg) = <<"B", "A", frame[p].id>>]_vars

\* The line of a call made after "A" and then "B" were registered is in
\* the file, and its body begins with "B", "A".
C12_Witness ==
    /\ added = <<"A", "B">>
    /\ \E path \in DOMAIN files :
          \E i \in 1..Len(files[path]) :
              files[path][i]
                = <<"[INFO]", " ", "B", "A", IdOf(files[path][i]), " ", "NL">>

(***************************************************************************)
(* C13.  AddProcessor is safe under concurrency: once all the concurrent   *)
(* AddProcessor calls have returned, the chain holds every processor they  *)
(* added, each exactly once; and every render runs a chain as it was       *)
(* before or after an append, never a partly appended one.                 *)
(***************************************************************************)
\* How often f occurs in the sequence s.
Count(s, f) == Cardinality({i \in 1..Len(s) : s[i] = f})

AllAddsKept ==
    (\A a \in Adders : adding[a].pc = "idle") =>
        /\ Len(processors) = Len(added)
        /\ \A f \in ChainIds : Count(processors, f) = Count(added, f)

\* The processors that ran for a rendered line: the tokens of its body
\* before the format text.
RanFor(msg) == SubSeq(msg, 2, Len(msg) - 3)

RendersSeeWholeChains ==
    \A p \in Producers :
        RenderStep(p) =>
            \E chain \in {processors} \cup
                          {Append(adding[a].old, adding[a].f) :
                             a \in {b \in Adders : adding[b].pc = "storing"}} :
                /\ Count(chain, Torn) = 0
                /\ RanFor(frame'[p].msg) = Reversed(chain)

C13_ConcurrentAddSafe == []AllAddsKept /\ [][RendersSeeWholeChains]_vars

(***************************************************************************)
(* C14.  Level store and load: the threshold is at all times the value of  *)
(* the most recent SetLevel, or Info when there was none; GetLevel returns *)
(* that value and the gate of every logging call reads it; and a step that *)
(* changes the threshold changes nothing else, so that no logging call,    *)
(* GetLevel, AddProcessor, ShowDetail or consumer step changes it.         *)
(***************************************************************************)
LevelIsLastSet == level = lastSet

GetLevelReturnsLastSet == (got' # got) => (got' = <<lastSet>>)

GateReadsLastSet ==
    CallStep => ((NewCall.result = "suppressed") <=> (lastSet > NewCall.sev))

OnlySetLevelChangesLevel ==
    (level' # level) =>
        UNCHANGED <<showDetail, processors, w, logChannel, fileVars, now,
                    producerVars, consumerVars, enqueued, procRuns, got,
                    adderVars>>

C14_LevelStoreLoad ==
    /\ []LevelIsLastSet
    /\ [][GetLevelReturnsLastSet /\ GateReadsLastSet
            /\ OnlySetLevelChangesLevel]_vars

\* The logger was set up with detail on and a processor; the threshold was
\* then changed, last to Debug; GetLevel returned Debug; and a Debug call
\* made after an Info call was suppressed has gone through to the file.
C14_Witness ==
    /\ got = <<LevelDebug>> /\ lastSet = LevelDebug
    /\ showDetail /\ processors # <<>>
    /\ ncalls = 2
    /\ calls[1].sev = LevelInfo /\ calls[1].result = "suppressed"
    /\ calls[2].sev = LevelDebug /\ calls[2].result = "returned"
    /\ cpc = "recv" /\ Len(handed) = 1

(***************************************************************************)
(* C15.  Initial state: a logger fresh from NewLogger, the default logger  *)
(* as well as one made by the user, has threshold Info, detail off, an     *)
(* empty chain, an empty console, an empty queue, whose capacity is fixed, *)
(* no file open and no bucket tag; and the queue, the file handle and the  *)
(* bucket tag stay so until the first logging call.                        *)
(***************************************************************************)
FreshLogger ==
    /\ level = LevelInfo
    /\ showDetail = FALSE
    /\ processors = <<>>
    /\ w = <<>>
    /\ logChannel = <<>>
    /\ logFile = Nil
    /\ currentHour = ""
    /\ openFds = {}

IdleBeforeFirstCall ==
    ncalls = 0 =>
        /\ w = <<>>
        /\ logChannel = <<>> /\ Len(logChannel) < ChanCap
        /\ logFile = Nil
        /\ currentHour = ""
        /\ openFds = {} /\ files = <<>>

ReturnStep(p) == pc[p] = "send" /\ pc'[p] = "idle"

DisabledCallEnqueuesNothing ==
    \A p \in Producers :
        (ReturnStep(p) /\ ~logFileEnabled) =>
            /\ CountOf(w, frame[p].id) = 1
            /\ logChannel' = logChannel /\ enqueued' = enqueued

EnabledCallEnqueuesOne ==
    \A p \in Producers :
        (ReturnStep(p) /\ logFileEnabled) =>
            /\ CountOf(w, frame[p].id) = 1
            /\ logChannel' = Append(logChannel,
                                    FileTag(frame[p].sev) \o frame[p].msg)

C16_PersistenceToggle ==
    [][DisabledCallEnqueuesNothing /\ EnabledCallEnqueuesOne]_vars

(***************************************************************************)
(* C17.  Detail mode: with detail off a rendered line has no timestamp and *)
(* no file:line; with detail on it has both, and the file:line is the line *)
(* of the user's code that calls the logging entry point, when that entry  *)
(* point is the package-level function as well as when it is the method    *)
(* of the logger.                                                          *)
(***************************************************************************)
DetailSegment ==
    \A p \in Producers :
        RenderStep(p) =>
            frame'[p].msg =
                <<" ">>
                  \o (IF showDetail THEN <<"time", " ", CallSite, " ">>
                                    ELSE <<>>)
                  \o getContent(<<frame[p].id>>, processors)
                  \o <<" ", "NL">>

C17_DetailCallSite == [][DetailSegment]_vars

(***************************************************************************)
(* C18.  Console before file: the console write of an emitted call is      *)
(* complete before its line is enqueued, so every line in the channel, in  *)
(* the hands of the consumer or in a file has its console line, with the   *)
(* same message, on the console already.                                   *)
(***************************************************************************)
\* The console holds the line of the call of the file line, once.
OnConsole(line) ==
    /\ CountOf(w, IdOf(line)) = 1
    /\ \E k \in 1..Len(w) :
          w[k] = ColoredTag(calls[IdOf(line)].sev) \o Tail(line)

EnqueuedLinesOnConsole ==
    /\ \A i \in 1..Len(enqueued) : OnConsole(enqueued[i])
    /\ \A i \in 1..Len(logChannel) : OnConsole(logChannel[i])
    /\ cpc = "write" => OnConsole(cmsg)

FileLinesOnConsole ==
    \A path \in DOMAIN files :
        \A i \in 1..Len(files[path]) : OnConsole(files[path][i])

ConsoleThenEnqueue ==
    \A p \in Producers :
        /\ ConsoleStep(p) => CountOf(enqueued, frame[p].id) = 0
        /\ ReturnStep(p) => CountOf(w, frame[p].id) = 1

C18_ConsoleBeforeFile ==
    /\ [](EnqueuedLinesOnConsole /\ FileLinesOnConsole)
    /\ [][ConsoleThenEnqueue]_vars

\* A line is in a file, another is in the channel, and a producer has
\* written its console line and not yet enqueued its line.
C18_Witness ==
    /\ \E path \in DOMAIN files : files[path] # <<>>
    /\ logChannel # <<>>
    /\ \E p \in Producers :
          /\ pc[p] = "send"
          /\ CountOf(w, frame[p].id) = 1
          /\ CountOf(enqueued, frame[p].id) = 0

(***************************************************************************)
(* C19.  The file state is owned by the consumer: only a writeToFile step  *)
(* changes the file handle, the bucket tag, the open files or the content  *)
(* of a file; Info, Debug, Error, SetLevel, GetLevel, AddProcessor and     *)
(* ShowDetail leave them as they are; and at most one line at a time is    *)
(* in the hands of writeToFile.                                            *)
(***************************************************************************)
FileStateOwnedByConsumer ==
    ~WriteStep => UNCHANGED <<logFile, currentHour, files, openFds>>

\* The lines handed to writeToFile that are neither on disk nor dropped.
InWriteToFile ==
    {i \in 1..Len(handed) :
        OnDisk(DOMAIN files, handed[i]) = 0 /\ handed[i] \notin dropped}

OneWriteInProgress ==
    /\ Cardinality(InWriteToFile) <= 1
    /\ (cpc = "write") <=> (InWriteToFile # {})

C19_ConsumerOwnsFiles ==
    [][FileStateOwnedByConsumer]_vars /\ []OneWriteInProgress

\* Every producer-side operation has been called, a line is in the file
\* and writeToFile is at work on another.
C19_Witness ==
    /\ got # <<>> /\ level = LevelError
    /\ showDetail /\ processors # <<>>
    /\ \E i, j, k \in 1..ncalls :
          /\ calls[i].sev = LevelDebug
          /\ calls[j].sev = LevelInfo
          /\ calls[k].sev = LevelError
    /\ \E path \in DOMAIN files : files[path] # <<>>
    /\ cpc = "write"

(***************************************************************************)
(* C20.  Rotation invariant: with the clock never going back and with any  *)
(* pattern of failing opens, a line is only ever written through a handle  *)
(* that is open, and that is the file log_<tag>.log of the hour sampled    *)
(* for the write; the file of the hour before is closed before the new one *)
(* is opened, so that at most one file is open; and a file, once there,    *)
(* stays and only grows at its end.                                        *)
(***************************************************************************)
WriteThroughOpenHandle ==
    (WriteStep /\ lastOpen' # "failed") =>
        /\ lastOpen' = "kept" => (logFile.open /\ logFile' = logFile)
        /\ logFile'.open
        /\ logFile'.path = FilePath(HourTag(now))
        /\ currentHour' = HourTag(now)
        /\ files' = AppendedTo(files, logFile'.path, cmsg)

NoWriteAfterFailedOpen ==
    (WriteStep /\ lastOpen' = "failed") => (files' = files /\ openFds' = {})

AtMostOneOpen ==
    /\ Cardinality(openFds) <= 1
    /\ openFds = IF logFile.open THEN {logFile.path} ELSE {}
    /\ logFile.open => logFile.path = FilePath(currentHour)

\* a is an initial part of b.
IsPrefix(a, b) == Len(a) <= Len(b) /\ SubSeq(b, 1, Len(a)) = a

AppendOnly ==
    \A path \in DOMAIN files :
        path \in DOMAIN files' /\ IsPrefix(files[path], files'[path])

C20_Rotation ==
    /\ [][WriteThroughOpenHandle /\ NoWriteAfterFailedOpen /\ AppendOnly]_vars
    /\ []AtMostOneOpen

\* A file was written in hour 0; then the open of the rotation failed and
\* its line was dropped; then the file of hour 1 was opened and written,
\* and is the one open file.
C20_Witness ==
    /\ DOMAIN files = {FilePath(HourTag(0)), FilePath(HourTag(1))}
    /\ files[FilePath(HourTag(0))] # <<>>
    /\ files[FilePath(HourTag(1))] # <<>>
    /\ dropped # {}
    /\ openFds = {FilePath(HourTag(1))}
    /\ lastOpen = "opened"
====
